---- MODULE Spec2Model ----
(***************************************************************************)
(* AuditApp: warehouse counting sessions (WorkerDashboard.tsx) and the     *)
(* OTP approval handshake (lib/supabase.ts, TeamLeaderDashboard).          *)
(*                                                                         *)
(* The store is the set of Supabase tables.  Every browser handler is an   *)
(* async function: it captures the React state of the render it was        *)
(* invoked from, and between two awaited storage calls any other handler   *)
(* (same tab or another tab of the same worker) may run.  One step of the  *)
(* model is one storage call together with the synchronous code after it.  *)
(* A storage call either succeeds or returns {error}; supabase-js never    *)
(* throws, so an error is seen only where the code looks at it.            *)
(*                                                                         *)
(* Time is the client wall clock (Date.now()), counted in ticks of         *)
(* MsPerTick milliseconds.  The wall clock is not monotonic.               *)
(***************************************************************************)
EXTENDS Integers, Sequences, FiniteSets, TLC

VARIABLES now, counting_sessions, counting_records, worker_efficiency,
          eff_session, currentSession, task,
          otp_requests, is_approved, selectedWorker, vtask, verified,
          lastVerify, issued, users, failures, ops, calc

sessVars == <<counting_sessions, counting_records, worker_efficiency,
              eff_session, currentSession, task>>
otpVars == <<otp_requests, is_approved, selectedWorker, vtask, verified, lastVerify,
             issued, users>>
vars == <<now, sessVars, otpVars, failures, ops, calc>>

(***************************************************************************)
(* Bounds of the model.                                                    *)
(***************************************************************************)
MaxOps == 3
MaxFailures == 1
MaxBins == 61
MaxMinutes == 120

(***************************************************************************)
(* Granularity of the clock and the instants the wall clock is read at.    *)
(***************************************************************************)
MsPerTick == 15000
MsPerMinute == 1000 * 60
SessionInstants == {0, 3}
OtpInstants == {0, 39, 40}
ScenarioInstants == {0, 1, 2, 480}
TimedInstants == {0, 1, 2}

Slots == {1, 2}
Clients == {"c1", "c2"}
Workers == {"w1", "w2"}
TeamLeader == "tl1"
Bins == {"A001", "A002"}
Quantities == {<<>>, <<4, 0>>, <<8, 5>>}

\* user of the AuthContext of each worker tab: both tabs are the same worker
user == [c \in Clients |-> "w1"]

Null == <<>>
Some(v) == <<v>>
Val(o) == o[1]

Max(a, b) == IF a >= b THEN a ELSE b
Min(a, b) == IF a <= b THEN a ELSE b

\* Math.round(n / d) for d > 0: nearest integer, halves towards +infinity
Round(n, d) == (2 * n + d) \div (2 * d)

\* parseInt of the text of the quantity input (decimal digits)
RECURSIVE parseInt(_)
parseInt(s) ==
  IF Len(s) = 0 THEN 0
  ELSE 10 * parseInt(SubSeq(s, 1, Len(s) - 1)) + s[Len(s)]

\* variant of timeTakenMinutes: Math.floor in place of Math.round
timeTakenMinutesFloor(endTime, startTime) ==
  ((endTime - startTime) * MsPerTick) \div MsPerMinute

\* Math.round((new Date(endTime).getTime() - startTime.getTime()) / (1000 * 60))
timeTakenMinutes(endTime, startTime) ==
  Round((endTime - startTime) * MsPerTick, MsPerMinute)

\* Math.round((bins / d) * 60) in IEEE-754 double arithmetic.  bins / d is
\* rounded to a double before the multiplication; of all quotients whose
\* exact product with 60 is a tie k + 1/2 below the cap (k in 0..99) only
\* 41/40 gives a product below the tie (61.49999999999999), every other
\* product is the exact one.
roundBinsPerHour(bins, d) ==
  IF 40 * bins = 41 * d THEN 61 ELSE Round(bins * 60, d)

\* variant of efficiencyScore: without Math.min(100, ...)
efficiencyScoreUncapped(bins, minutes) ==
  roundBinsPerHour(bins, Max(1, minutes))

\* Math.min(100, Math.round((total_bins_counted / Math.max(1, minutes)) * 60))
efficiencyScore(bins, minutes) ==
  Min(100, roundBinsPerHour(bins, Max(1, minutes)))

(***************************************************************************)
(* Store queries.                                                          *)
(***************************************************************************)
\* from('counting_sessions').eq('worker_id', w).eq('status', 'active')
activeSessions(w) ==
  {i \in DOMAIN counting_sessions :
     /\ counting_sessions[i].worker_id = w
     /\ counting_sessions[i].status = "active"}

IdleTask == [pc |-> "idle", client |-> "c1", session |-> Null,
             bin |-> "A001", quantity |-> <<>>, time |-> 0, stored |-> "active"]

IdleVerify == [pc |-> "idle", worker |-> "w1", row |-> 0]

vfree(t) ==
  /\ vtask[t].pc = "idle"
  /\ \A u \in Slots : u < t => vtask[u].pc # "idle"

\* a new invocation takes the first free slot
free(t) ==
  /\ task[t].pc = "idle"
  /\ \A u \in Slots : u < t => task[u].pc # "idle"

\* a row of users; the id of a row is its position in the table
userRow(username, role, vendorId, teamLeaderId, approved) ==
  [username |-> username, role |-> role, vendor_id |-> vendorId,
   team_leader_id |-> teamLeaderId, is_approved |-> approved]

\* the sample users of the migration: admin, a vendor, its team leader and a
\* worker of that team leader
SeedUsers ==
  <<userRow("admin", "admin", Null, Null, TRUE),
    userRow("vendor1", "vendor", Null, Null, TRUE),
    userRow("tl1", "team_leader", Some(2), Null, TRUE),
    userRow("worker1", "worker", Null, Some(3), TRUE)>>

(***************************************************************************)
(* Initial state: empty tables, both tabs mounted without a session.       *)
(***************************************************************************)
InitStore ==
  /\ now = 0
  /\ counting_sessions = <<>>
  /\ counting_records = <<>>
  /\ worker_efficiency = <<>>
  /\ eff_session = <<>>
  /\ currentSession = [c \in Clients |-> Null]
  /\ task = [t \in Slots |-> IdleTask]
  /\ otp_requests = <<>>
  /\ is_approved = [w \in Workers |-> FALSE]
  /\ selectedWorker = Null
  /\ vtask = [t \in Slots |-> IdleVerify]
  /\ verified = <<>>
  /\ lastVerify = Null
  /\ issued = <<>>
  /\ users = SeedUsers
  /\ failures = 0
  /\ ops = 0

Init == InitStore /\ calc = Null

AllIdle == \A t \in Slots : task[t].pc = "idle" /\ vtask[t].pc = "idle"

\* a click on a handler: at most limit clicks in a run; seq: handlers do not
\* overlap, a handler is invoked only when no other is running
Click(limit, seq) ==
  /\ seq => AllIdle
  /\ ops < limit
  /\ ops' = ops + 1
  /\ UNCHANGED <<failures, calc>>

\* the outcome of a storage call: at most MaxFailures calls return an error
Outcome(ok) ==
  /\ ok \/ failures < MaxFailures
  /\ failures' = IF ok THEN failures ELSE failures + 1
  /\ UNCHANGED <<ops, calc>>

\* a click whose handler reaches its first storage call at once
ClickCall(limit, seq, ok) ==
  /\ seq => AllIdle
  /\ ops < limit
  /\ ops' = ops + 1
  /\ ok \/ failures < MaxFailures
  /\ failures' = IF ok THEN failures ELSE failures + 1
  /\ UNCHANGED calc

\* the wall clock is read as some instant of I
Tick(I) ==
  /\ \E t \in I : t # now /\ now' = t
  /\ UNCHANGED <<sessVars, otpVars, failures, ops, calc>>

\* variant of loadData: currentSession is not refreshed from the store
loadDataSkipped(c, ok) == currentSession

(***************************************************************************)
(* WorkerDashboard.loadData: the active session of the user, if the query  *)
(* returns exactly one row, replaces currentSession; otherwise (no row,    *)
(* several rows, or a storage error) .single() gives data = null and       *)
(* currentSession keeps its value.                                         *)
(***************************************************************************)
loadData(c, ok) ==
  LET act == activeSessions(user[c]) IN
  IF ok /\ Cardinality(act) = 1
  THEN [currentSession EXCEPT ![c] = Some(counting_sessions[CHOOSE i \in act : TRUE])]
  ELSE currentSession

\* the tab is (re)opened: useState(null), then the effect runs loadData
Mount(t, c, seq) ==
  /\ seq => AllIdle
  /\ UNCHANGED <<ops, failures, calc>>
  /\ free(t)
  /\ \A u \in Slots : task[u].pc # "idle" => task[u].client # c
  /\ currentSession' = [currentSession EXCEPT ![c] = Null]
  /\ task' = [task EXCEPT ![t] = [IdleTask EXCEPT !.pc = "load", !.client = c]]
  /\ UNCHANGED <<now, counting_sessions, counting_records, worker_efficiency,
                 eff_session, otpVars>>

Load(t, ok) ==
  /\ task[t].pc = "load"
  /\ Outcome(ok)
  /\ currentSession' = loadData(task[t].client, ok)
  /\ task' = [task EXCEPT ![t] = IdleTask]
  /\ UNCHANGED <<now, counting_sessions, counting_records, worker_efficiency,
                 eff_session, otpVars>>

(***************************************************************************)
(* startCounting                                                           *)
(***************************************************************************)
\* the Start button is rendered only while currentSession is null
StartClick(t, c, limit, seq) ==
  /\ Click(limit, seq)
  /\ free(t)
  /\ currentSession[c] = Null
  /\ task' = [task EXCEPT ![t] = [IdleTask EXCEPT !.pc = "start", !.client = c,
                                                   !.time = now]]
  /\ UNCHANGED <<now, counting_sessions, counting_records, worker_efficiency,
                 eff_session, currentSession, otpVars>>

\* the row the insert returns: id generated by the store
newSession(c, startTime) ==
  [id |-> Len(counting_sessions) + 1, worker_id |-> user[c],
   start_time |-> startTime, end_time |-> Null, status |-> "active",
   total_bins_counted |-> 0, total_qty_counted |-> 0]

StartInsert(t, ok) ==
  /\ task[t].pc = "start"
  /\ Outcome(ok)
  /\ IF ok
     THEN /\ counting_sessions' = Append(counting_sessions, newSession(task[t].client, task[t].time))
          /\ currentSession' = [currentSession EXCEPT
                                  ![task[t].client] = Some(newSession(task[t].client, task[t].time))]
     ELSE UNCHANGED <<counting_sessions, currentSession>>
  /\ task' = [task EXCEPT ![t] = IdleTask]
  /\ UNCHANGED <<now, counting_records, worker_efficiency, eff_session, otpVars>>

(***************************************************************************)
(* endCounting                                                             *)
(***************************************************************************)
\* the End button is rendered only while currentSession is set; the handler
\* keeps the currentSession of that render and reads the clock once.
\* stored is history: the status the row has in the store at this moment
EndClick(t, c, limit, seq) ==
  /\ Click(limit, seq)
  /\ free(t)
  /\ currentSession[c] # Null
  /\ task' = [task EXCEPT ![t] = [IdleTask EXCEPT !.pc = "end_update", !.client = c,
                                                   !.session = currentSession[c],
                                                   !.time = now,
                                                   !.stored = counting_sessions[
                                                     Val(currentSession[c]).id].status]]
  /\ UNCHANGED <<now, counting_sessions, counting_records, worker_efficiency,
                 eff_session, currentSession, otpVars>>

\* update({end_time, status: 'completed'}).eq('id', currentSession.id);
\* the result of the call is not looked at
EndUpdate(t, ok) ==
  /\ task[t].pc = "end_update"
  /\ Outcome(ok)
  /\ counting_sessions' =
       IF ok
       THEN [counting_sessions EXCEPT ![Val(task[t].session).id] =
               [@ EXCEPT !.end_time = Some(task[t].time), !.status = "completed"]]
       ELSE counting_sessions
  /\ task' = [task EXCEPT ![t].pc = "end_insert"]
  /\ UNCHANGED <<now, counting_records, worker_efficiency, eff_session,
                 currentSession, otpVars>>

\* variant of efficiencyRow: the ranking is the row's place in the table
efficiencyRowRanked(c, s, endTime) ==
  [username |-> user[c],
   bins_counted |-> s.total_bins_counted,
   qty_counted |-> s.total_qty_counted,
   time_taken_minutes |-> timeTakenMinutes(endTime, s.start_time),
   efficiency_score |-> efficiencyScore(s.total_bins_counted,
                                        timeTakenMinutes(endTime, s.start_time)),
   ranking |-> Len(worker_efficiency) + 1]

\* the worker_efficiency row built from the captured currentSession
efficiencyRow(c, s, endTime) ==
  [username |-> user[c],
   bins_counted |-> s.total_bins_counted,
   qty_counted |-> s.total_qty_counted,
   time_taken_minutes |-> timeTakenMinutes(endTime, s.start_time),
   efficiency_score |-> efficiencyScore(s.total_bins_counted,
                                        timeTakenMinutes(endTime, s.start_time)),
   ranking |-> 1]

\* insert into worker_efficiency (result not looked at), setCurrentSession(null)
EndInsert(t, ok) ==
  /\ task[t].pc = "end_insert"
  /\ Outcome(ok)
  /\ IF ok
     THEN /\ worker_efficiency' =
               Append(worker_efficiency,
                      efficiencyRow(task[t].client, Val(task[t].session), task[t].time))
          /\ eff_session' = Append(eff_session, Val(task[t].session).id)
     ELSE UNCHANGED <<worker_efficiency, eff_session>>
  /\ currentSession' = [currentSession EXCEPT ![task[t].client] = Null]
  /\ task' = [task EXCEPT ![t] = [IdleTask EXCEPT !.pc = "load",
                                                   !.client = task[t].client]]
  /\ UNCHANGED <<now, counting_sessions, counting_records, otpVars>>

(***************************************************************************)
(* handleQuantitySubmit / confirmQuantity                                  *)
(***************************************************************************)
\* Math.floor(Math.random() * 100) + 50 ranges over 50..149
BookQtys == {50, 149}

ConfirmClick(t, c, bin, quantity, limit, seq) ==
  /\ Click(limit, seq)
  /\ free(t)
  /\ quantity # <<>>
  /\ currentSession[c] # Null
  /\ task' = [task EXCEPT ![t] = [IdleTask EXCEPT !.pc = "confirm_insert", !.client = c,
                                                   !.session = currentSession[c],
                                                   !.bin = bin, !.quantity = quantity]]
  /\ UNCHANGED <<now, counting_sessions, counting_records, worker_efficiency,
                 eff_session, currentSession, otpVars>>

\* variant of countingRecord: the quantity is stored as the recount too
countingRecordRecounted(c, s, bin, quantity, books) ==
  [session_id |-> s.id, username |-> user[c], bin_no |-> bin,
   qty_counted |-> parseInt(quantity), qty_recounted |-> Some(parseInt(quantity)),
   qty_as_per_books |-> books, difference |-> 0,
   reason_for_difference |-> Null]

\* variant of countingRecord: difference computed from the two quantities
countingRecordDifference(c, s, bin, quantity, books) ==
  [session_id |-> s.id, username |-> user[c], bin_no |-> bin,
   qty_counted |-> parseInt(quantity), qty_recounted |-> Null,
   qty_as_per_books |-> books, difference |-> parseInt(quantity) - books,
   reason_for_difference |-> Null]

\* insert([{session_id: currentSession.id, ..., qty_counted: parseInt(quantity),
\* qty_as_per_books: Math.floor(Math.random() * 100) + 50, difference: 0}])
countingRecord(c, s, bin, quantity, books) ==
  [session_id |-> s.id, username |-> user[c], bin_no |-> bin,
   qty_counted |-> parseInt(quantity), qty_recounted |-> Null,
   qty_as_per_books |-> books, difference |-> 0,
   reason_for_difference |-> Null]

\* insert into counting_records; the result of the call is not looked at
ConfirmInsert(t, ok, books) ==
  /\ task[t].pc = "confirm_insert"
  /\ Outcome(ok)
  /\ counting_records' =
       IF ok
       THEN Append(counting_records,
                   countingRecord(task[t].client, Val(task[t].session),
                                  task[t].bin, task[t].quantity, books))
       ELSE counting_records
  /\ task' = [task EXCEPT ![t].pc = "confirm_update"]
  /\ UNCHANGED <<now, counting_sessions, worker_efficiency, eff_session,
                 currentSession, otpVars>>

\* update({total_bins_counted: currentSession.total_bins_counted + 1, ...})
\* computed from the captured currentSession, written as absolute values
ConfirmUpdate(t, ok) ==
  /\ task[t].pc = "confirm_update"
  /\ Outcome(ok)
  /\ counting_sessions' =
       IF ok
       THEN [counting_sessions EXCEPT ![Val(task[t].session).id] =
               [@ EXCEPT !.total_bins_counted =
                            Val(task[t].session).total_bins_counted + 1,
                         !.total_qty_counted =
                            Val(task[t].session).total_qty_counted
                              + parseInt(task[t].quantity)]]
       ELSE counting_sessions
  /\ task' = [task EXCEPT ![t] = [IdleTask EXCEPT !.pc = "load",
                                                   !.client = task[t].client]]
  /\ UNCHANGED <<now, counting_records, worker_efficiency, eff_session,
                 currentSession, otpVars>>

(***************************************************************************)
(* OTP issuance and verification (lib/supabase.ts) and the team leader's   *)
(* handlers that call them.                                                *)
(***************************************************************************)
\* Number.prototype.toString of a non-negative integer: its decimal digits
RECURSIVE toString(_)
toString(n) ==
  IF n < 10 THEN <<n>> ELSE Append(toString(n \div 10), n % 10)

\* variant of generateOTP: without the offset 100000
generateOTPFromZero(k) == toString(k)

\* Math.floor(100000 + Math.random() * 900000).toString(), where k is
\* Math.floor(Math.random() * 900000), a number of 0..899999
generateOTP(k) == toString(100000 + k)

RandomDraws == {23456, 899999}
EnteredCodes == {generateOTP(k) : k \in RandomDraws} \cup {<<0, 0, 0, 0, 0, 0>>}

\* 10 * 60 * 1000 ms
OtpTtl == (10 * 60 * 1000) \div MsPerTick

\* variant of eligible: the select without .eq('worker_id', workerId)
eligibleAnyWorker(workerId, otpCode) ==
  {i \in DOMAIN otp_requests :
     /\ otp_requests[i].otp_code = otpCode
     /\ otp_requests[i].is_used = FALSE
     /\ otp_requests[i].expires_at > now}

\* variant of eligible: the select without .eq('is_used', false)
eligibleIgnoringUsed(workerId, otpCode) ==
  {i \in DOMAIN otp_requests :
     /\ otp_requests[i].worker_id = workerId
     /\ otp_requests[i].otp_code = otpCode
     /\ otp_requests[i].expires_at > now}

\* variant of eligible: .gte('expires_at', now) in place of .gt
eligibleAtExpiry(workerId, otpCode) ==
  {i \in DOMAIN otp_requests :
     /\ otp_requests[i].worker_id = workerId
     /\ otp_requests[i].otp_code = otpCode
     /\ otp_requests[i].is_used = FALSE
     /\ otp_requests[i].expires_at >= now}

\* the rows of the select of verifyOTP: eq worker_id, eq otp_code,
\* eq is_used false, gt expires_at now
eligible(workerId, otpCode) ==
  {i \in DOMAIN otp_requests :
     /\ otp_requests[i].worker_id = workerId
     /\ otp_requests[i].otp_code = otpCode
     /\ otp_requests[i].is_used = FALSE
     /\ otp_requests[i].expires_at > now}

\* variant of newOtpRequest: the lifetime 10 * 60 taken as milliseconds
newOtpRequestShortLived(workerId, teamLeaderId, k) ==
  [id |-> Len(otp_requests) + 1, worker_id |-> workerId,
   team_leader_id |-> teamLeaderId, otp_code |-> generateOTP(k),
   is_used |-> FALSE, expires_at |-> now + ((10 * 60) \div MsPerTick)]

\* createOTPRequest: the row the insert stores
newOtpRequest(workerId, teamLeaderId, k) ==
  [id |-> Len(otp_requests) + 1, worker_id |-> workerId,
   team_leader_id |-> teamLeaderId, otp_code |-> generateOTP(k),
   is_used |-> FALSE, expires_at |-> now + OtpTtl]

\* handleWorkerLogin(worker): createOTPRequest, then the OTP modal opens for
\* that worker; an insert error is thrown and nothing else happens.
\* issued is history: the calls of createOTPRequest that returned a row
HandleWorkerLogin(w, k, ok, limit, seq) ==
  /\ ClickCall(limit, seq, ok)
  /\ IF ok
     THEN /\ otp_requests' = Append(otp_requests, newOtpRequest(w, TeamLeader, k))
          /\ selectedWorker' = Some(w)
          /\ issued' = Append(issued, [worker |-> w, team_leader |-> TeamLeader,
                                       at |-> now])
     ELSE UNCHANGED <<otp_requests, selectedWorker, issued>>
  /\ UNCHANGED <<now, sessVars, is_approved, vtask, verified, lastVerify, users>>

\* why the select of verifyOTP gives no row: no request of the worker has the
\* code, one that has it is used, one that has it is expired, several are
\* eligible, the storage call failed
failureCauses(workerId, otpCode, ok) ==
  LET match == {i \in DOMAIN otp_requests :
                  /\ otp_requests[i].worker_id = workerId
                  /\ otp_requests[i].otp_code = otpCode}
  IN {c \in {"wrong", "used", "expired", "several", "storage"} :
        \/ c = "wrong" /\ match = {}
        \/ c = "used" /\ \E i \in match : otp_requests[i].is_used
        \/ c = "expired" /\ \E i \in match : otp_requests[i].expires_at <= now
        \/ c = "several" /\ Cardinality(eligible(workerId, otpCode)) > 1
        \/ c = "storage" /\ ~ok}

\* variant of verifyError: one message per cause
verifyErrorByCause(workerId, otpCode) ==
  IF \E i \in DOMAIN otp_requests :
        /\ otp_requests[i].worker_id = workerId
        /\ otp_requests[i].otp_code = otpCode
        /\ otp_requests[i].is_used
  THEN "OTP already used"
  ELSE IF \E i \in DOMAIN otp_requests :
             /\ otp_requests[i].worker_id = workerId
             /\ otp_requests[i].otp_code = otpCode
             /\ otp_requests[i].expires_at <= now
       THEN "OTP expired"
       ELSE "Invalid OTP"

\* if (error || !data) throw new Error('Invalid or expired OTP'); the handler
\* alerts the same text
verifyError(workerId, otpCode) == "Invalid or expired OTP"

\* variant of afterSelect: a failed lookup does not end the handler
afterSelectNoThrow(t, rows, ok) ==
  IF ok /\ Cardinality(rows) = 1
  THEN [vtask EXCEPT ![t] = [pc |-> "mark", worker |-> Val(selectedWorker),
                             row |-> CHOOSE i \in rows : TRUE]]
  ELSE [vtask EXCEPT ![t] = [pc |-> "approve", worker |-> Val(selectedWorker),
                             row |-> 0]]

\* the handler after the select: with a row it goes on to mark it, without
\* one verifyOTP throws and the catch of the handler ends it
afterSelect(t, rows, ok) ==
  IF ok /\ Cardinality(rows) = 1
  THEN [vtask EXCEPT ![t] = [pc |-> "mark", worker |-> Val(selectedWorker),
                             row |-> CHOOSE i \in rows : TRUE]]
  ELSE vtask

\* handleOTPVerification as far as the select of verifyOTP: .single() gives
\* an error unless exactly one row matches, and the handler alerts and ends.
\* lastVerify is history: the last lookup, the rows that were eligible, why
\* it failed and what was thrown
VerifySelect(t, code, ok, limit, seq) ==
  /\ ClickCall(limit, seq, ok)
  /\ vfree(t)
  /\ selectedWorker # Null
  /\ LET rows == eligible(Val(selectedWorker), code) IN
       /\ vtask' = afterSelect(t, rows, ok)
       /\ lastVerify' =
            Some([worker |-> Val(selectedWorker), code |-> code, at |-> now,
                  rows |-> rows,
                  found |-> ok /\ Cardinality(rows) = 1,
                  causes |-> IF ok /\ Cardinality(rows) = 1 THEN {}
                             ELSE failureCauses(Val(selectedWorker), code, ok),
                  error |-> IF ok /\ Cardinality(rows) = 1 THEN Null
                            ELSE Some(verifyError(Val(selectedWorker), code))])
  /\ UNCHANGED <<now, sessVars, otp_requests, is_approved, selectedWorker, verified,
                 issued, users>>

\* variant of markUsed: is_used is flipped
markUsedFlipped(row) == [otp_requests EXCEPT ![row].is_used = ~@]

\* update({is_used: true}).eq('id', data.id)
markUsed(row) == [otp_requests EXCEPT ![row].is_used = TRUE]

\* update({is_used: true}).eq('id', data.id), result not looked at;
\* verifyOTP returns the row it had selected
VerifyMark(t, ok) ==
  /\ vtask[t].pc = "mark"
  /\ Outcome(ok)
  /\ otp_requests' = IF ok
                     THEN markUsed(vtask[t].row)
                     ELSE otp_requests
  /\ verified' = Append(verified, [row |-> vtask[t].row, worker |-> vtask[t].worker,
                                   marked |-> ok])
  /\ vtask' = [vtask EXCEPT ![t].pc = "approve"]
  /\ UNCHANGED <<now, sessVars, is_approved, selectedWorker, lastVerify, issued,
                 users>>

\* update({is_approved: true}).eq('id', selectedWorker.id), result not looked
\* at; the modal closes
Approve(t, ok) ==
  /\ vtask[t].pc = "approve"
  /\ Outcome(ok)
  /\ is_approved' = IF ok
                    THEN [is_approved EXCEPT ![vtask[t].worker] = TRUE]
                    ELSE is_approved
  /\ selectedWorker' = Null
  /\ vtask' = [vtask EXCEPT ![t] = IdleVerify]
  /\ UNCHANGED <<now, sessVars, otp_requests, verified, lastVerify, issued, users>>

(***************************************************************************)
(* Specifications of the worker dashboard.                                 *)
(***************************************************************************)
\* tabs Cs, storage outcomes Oks, inputs Bs, Qs, Ks, clock readings I
SessionNext(Cs, Oks, Bs, Qs, Ks, I, limit, seq) ==
  \/ Tick(I)
  \/ \E t \in Slots, c \in Cs : Mount(t, c, seq)
  \/ \E t \in Slots, c \in Cs : StartClick(t, c, limit, seq)
  \/ \E t \in Slots, c \in Cs : EndClick(t, c, limit, seq)
  \/ \E t \in Slots, c \in Cs, bin \in Bs, quantity \in Qs :
       ConfirmClick(t, c, bin, quantity, limit, seq)
  \/ \E t \in Slots, ok \in Oks : Load(t, ok)
  \/ \E t \in Slots, ok \in Oks : StartInsert(t, ok)
  \/ \E t \in Slots, ok \in Oks : EndUpdate(t, ok)
  \/ \E t \in Slots, ok \in Oks : EndInsert(t, ok)
  \/ \E t \in Slots, ok \in Oks, books \in Ks : ConfirmInsert(t, ok, books)
  \/ \E t \in Slots, ok \in Oks : ConfirmUpdate(t, ok)

\* any tabs of the worker, overlapping handlers, storage calls may fail
NextSession ==
  SessionNext(Clients, BOOLEAN, {"A001"}, Quantities, {50}, SessionInstants,
              MaxOps, FALSE)

SpecSession == Init /\ [][NextSession]_vars

\* any tabs of the worker, overlapping handlers, every storage call succeeds
NextConcurrent ==
  SessionNext(Clients, {TRUE}, {"A001"}, Quantities, {50}, SessionInstants,
              MaxOps, FALSE)

SpecConcurrent == Init /\ [][NextConcurrent]_vars

\* any tabs of the worker, a handler is invoked only when no other is running
NextSessionSeq ==
  SessionNext(Clients, BOOLEAN, {"A001"}, Quantities, {50}, SessionInstants,
              MaxOps, TRUE)

SpecSessionSeq == Init /\ [][NextSessionSeq]_vars

\* as NextSessionSeq, the clock read at instants 15 and 30 seconds apart
NextSessionTimed ==
  SessionNext(Clients, BOOLEAN, {"A001"}, Quantities, {50}, TimedInstants,
              MaxOps, TRUE)

SpecSessionTimed == Init /\ [][NextSessionTimed]_vars

\* one tab, one handler at a time, every storage call succeeds
NextScenario ==
  SessionNext({"c1"}, {TRUE}, Bins, Quantities, BookQtys, ScenarioInstants,
              MaxOps + 1, TRUE)

SpecScenario == Init /\ [][NextScenario]_vars

(***************************************************************************)
(* Specifications of the team leader dashboard.                            *)
(***************************************************************************)
\* workers Ws of the team leader, codes Es typed into the OTP form, storage
\* outcomes Oks
OtpNext(Ws, Es, Oks, limit, seq) ==
  \/ Tick(OtpInstants)
  \/ \E w \in Ws, k \in RandomDraws, ok \in Oks :
       HandleWorkerLogin(w, k, ok, limit, seq)
  \/ \E t \in Slots, code \in Es, ok \in Oks :
       VerifySelect(t, code, ok, limit, seq)
  \/ \E t \in Slots, ok \in Oks : VerifyMark(t, ok)
  \/ \E t \in Slots, ok \in Oks : Approve(t, ok)

\* overlapping submissions of the OTP form, storage calls may fail
NextOtp == OtpNext(Workers, EnteredCodes, BOOLEAN, MaxOps, FALSE)

SpecOtp == Init /\ [][NextOtp]_vars

\* one worker, non-overlapping calls, storage calls may fail
NextOtpSeq == OtpNext({"w1"}, EnteredCodes, BOOLEAN, MaxOps + 1, TRUE)

SpecOtpSeq == Init /\ [][NextOtpSeq]_vars

\* one worker, non-overlapping calls, every storage call succeeds
NextOtpScenario == OtpNext({"w1"}, EnteredCodes, {TRUE}, MaxOps + 1, TRUE)

SpecOtpScenario == Init /\ [][NextOtpScenario]_vars

(***************************************************************************)
(* The efficiency score as a function: inputs drawn from bounded sets.     *)
(***************************************************************************)
InitScore ==
  /\ InitStore
  /\ calc \in {Some([bins |-> b, minutes |-> m, score |-> Null]) :
                 b \in 0..MaxBins, m \in (0 - 2)..MaxMinutes}

ApplyScore ==
  /\ Val(calc).score = Null
  /\ calc' = Some([Val(calc) EXCEPT
                     !.score = Some(efficiencyScore(Val(calc).bins, Val(calc).minutes))])
  /\ UNCHANGED <<now, sessVars, otpVars, failures, ops>>

SpecScore == InitScore /\ [][ApplyScore]_vars

(***************************************************************************)
(* The user-creating handlers: AdminDashboard.handleCreateUser and          *)
(* TeamLeaderDashboard.handleCreateWorker.  username is UNIQUE: the store   *)
(* rejects an insert whose username exists.                                *)
(***************************************************************************)
NewUsernames == {"u1", "u2"}
\* the options of the role select of the admin form
FormRoles == {"vendor", "team_leader", "worker"}
\* the team leader signed in to the TeamLeaderDashboard: the row of tl1
SignedInTeamLeader == 3

usernameTaken(username) == \E i \in DOMAIN users : users[i].username = username

\* insert([{username, role, warehouse_name, is_approved: true}])
adminUserRow(username, role) == userRow(username, role, Null, Null, TRUE)

\* insert([{username, role: 'worker', team_leader_id: user?.id, ..., is_approved: false}])
workerUserRow(username) ==
  userRow(username, "worker", Null, Some(SignedInTeamLeader), FALSE)

HandleCreateUser(username, role, ok, limit, seq) ==
  /\ ClickCall(limit, seq, ok)
  /\ users' = IF ok /\ ~usernameTaken(username)
              THEN Append(users, adminUserRow(username, role))
              ELSE users
  /\ UNCHANGED <<now, sessVars, otp_requests, is_approved, selectedWorker, vtask,
                 verified, lastVerify, issued>>

HandleCreateWorker(username, ok, limit, seq) ==
  /\ ClickCall(limit, seq, ok)
  /\ users' = IF ok /\ ~usernameTaken(username)
              THEN Append(users, workerUserRow(username))
              ELSE users
  /\ UNCHANGED <<now, sessVars, otp_requests, is_approved, selectedWorker, vtask,
                 verified, lastVerify, issued>>

NextUsers ==
  \/ \E username \in NewUsernames, role \in FormRoles, ok \in BOOLEAN :
       HandleCreateUser(username, role, ok, MaxOps, FALSE)
  \/ \E username \in NewUsernames, ok \in BOOLEAN :
       HandleCreateWorker(username, ok, MaxOps, FALSE)

SpecUsers == Init /\ [][NextUsers]_vars

(***************************************************************************)
(* generateOTP as a function: a text of six digits to look for and a value *)
(* of Math.floor(Math.random() * 900000).                                  *)
(***************************************************************************)
CodeDigits == {0, 1, 9}
CodeTexts == [1..6 -> CodeDigits]
SampleDraws == {0, 1, 23456, 899998, 899999}

InitCode ==
  /\ InitStore
  /\ calc \in {Some([target |-> d, draw |-> k, code |-> Null]) :
                 d \in CodeTexts, k \in SampleDraws}

ApplyGenerateOTP ==
  /\ Val(calc).code = Null
  /\ calc' = Some([Val(calc) EXCEPT !.code = Some(generateOTP(Val(calc).draw))])
  /\ UNCHANGED <<now, sessVars, otpVars, failures, ops>>

SpecCode == InitCode /\ [][ApplyGenerateOTP]_vars

(***************************************************************************)
(* Properties.                                                             *)
(***************************************************************************)
\* r is the integer nearest to num / den (den > 0), halves towards +infinity
IsNearest(r, num, den) ==
  /\ 2 * den * r - den <= 2 * num
  /\ 2 * num < 2 * den * r + den

\* min(100, round((bins / max(1, minutes)) * 60)) over the rationals
IsScore(r, bins, minutes) ==
  \E q \in 0..(60 * bins) :
     /\ IsNearest(q, 60 * bins, Max(1, minutes))
     /\ r = Min(100, q)

recordsOf(s) == {k \in DOMAIN counting_records : counting_records[k].session_id = s}
effRows(s) == {k \in DOMAIN eff_session : eff_session[k] = s}

RECURSIVE sumQty(_)
sumQty(S) ==
  IF S = {} THEN 0
  ELSE LET k == CHOOSE x \in S : TRUE
       IN counting_records[k].qty_counted + sumQty(S \ {k})

\* an endCounting / a confirmQuantity on session s has not finished its writes
ending(s) ==
  \E t \in Slots : /\ task[t].pc \in {"end_update", "end_insert"}
                   /\ Val(task[t].session).id = s
confirming(s) ==
  \E t \in Slots : /\ task[t].pc \in {"confirm_insert", "confirm_update"}
                   /\ Val(task[t].session).id = s

\* C1: across any interleaving of verifyOTP calls, an OTP request is returned
\* by at most one successful call.
C1_VerifiedAtMostOnce ==
  \A i, j \in DOMAIN verified : verified[i].row = verified[j].row => i = j

\* C2: in non-overlapping calls, once a verifyOTP has succeeded and marked its
\* request used, no later verifyOTP returns that request (so a request is
\* consumed by at most one successful call).
C2_NoVerifyAfterConsumption ==
  \A i, j \in DOMAIN verified :
     (i < j /\ verified[i].row = verified[j].row) => ~verified[i].marked

\* a verifyOTP consumed a request, and the next verifyOTP with the same worker
\* and code, inside the validity window, failed
C2_SecondVerifyFailed ==
  /\ lastVerify # Null
  /\ ~Val(lastVerify).found
  /\ \E i \in DOMAIN verified :
        LET r == otp_requests[verified[i].row] IN
        /\ verified[i].marked
        /\ r.is_used
        /\ r.worker_id = Val(lastVerify).worker
        /\ r.otp_code = Val(lastVerify).code
        /\ r.expires_at > Val(lastVerify).at

\* C3: a verifyOTP whose matching requests all have expires_at <= now at the
\* lookup fails, used or not; expires_at = now counts as expired.
C3_ExpiredNeverVerifies ==
  lastVerify # Null =>
    LET v == Val(lastVerify) IN
    (\A i \in DOMAIN otp_requests :
        (otp_requests[i].worker_id = v.worker /\ otp_requests[i].otp_code = v.code)
          => otp_requests[i].expires_at <= v.at)
      => ~v.found

\* a verifyOTP at the very instant expires_at of a never used request failed
C3_FailedAtExpiry ==
  /\ lastVerify # Null
  /\ ~Val(lastVerify).found
  /\ \E i \in DOMAIN otp_requests :
        /\ otp_requests[i].worker_id = Val(lastVerify).worker
        /\ otp_requests[i].otp_code = Val(lastVerify).code
        /\ ~otp_requests[i].is_used
        /\ otp_requests[i].expires_at = Val(lastVerify).at
  /\ failures = 0

\* C4: every worker has at most one counting session with status active.
C4_AtMostOneActive ==
  \A w \in Workers : Cardinality(activeSessions(w)) <= 1

\* C5: every completed session has exactly one worker_efficiency row, never
\* none once its endCounting has finished and never two.
C5_ExactlyOneEfficiency ==
  \A s \in DOMAIN counting_sessions :
     /\ Cardinality(effRows(s)) <= 1
     /\ (counting_sessions[s].status = "completed" /\ ~ending(s))
          => Cardinality(effRows(s)) = 1

\* C6: an endCounting called when the session is already completed in the
\* store changes neither the session rows nor worker_efficiency.
C6_SecondEndChangesNothing ==
  [][\A t \in Slots :
       (/\ task[t].pc \in {"end_update", "end_insert"}
        /\ task[t].stored = "completed"
        /\ task'[t] # task[t])
         => (/\ counting_sessions' = counting_sessions
             /\ worker_efficiency' = worker_efficiency)]_vars

\* C7: once the confirmQuantity calls on a session have finished, its totals
\* are the number of its counting records and the sum of their quantities.
C7_NoLostIncrement ==
  \A s \in DOMAIN counting_sessions :
     ~confirming(s) =>
        /\ counting_sessions[s].total_bins_counted = Cardinality(recordsOf(s))
        /\ counting_sessions[s].total_qty_counted = sumQty(recordsOf(s))

\* the records of s are bin A001 with 85 and bin A002 with 40, in this order
IsExample(s) ==
  \E a, b \in DOMAIN counting_records :
     /\ recordsOf(s) = {a, b}
     /\ a < b
     /\ counting_records[a].bin_no = "A001" /\ counting_records[a].qty_counted = 85
     /\ counting_records[b].bin_no = "A002" /\ counting_records[b].qty_counted = 40
     /\ Val(counting_sessions[s].end_time) - counting_sessions[s].start_time
          = (120 * MsPerMinute) \div MsPerTick

C9_ScoreIsFormula ==
  (calc # Null /\ Val(calc).score # Null) =>
     LET c == Val(calc) IN
     /\ IsScore(Val(c.score), c.bins, c.minutes)
     /\ (c.bins = 5 /\ c.minutes = 120) => Val(c.score) = 3
     /\ c.bins = 0 => Val(c.score) = 0
     /\ (c.bins = 60 /\ c.minutes = 1) => Val(c.score) = 100

\* C10: every stored efficiency_score is an integer of 0..100, also when the
\* elapsed time rounds to 0 minutes or is negative.
C10_ScoreInRange ==
  \A k \in DOMAIN worker_efficiency :
     worker_efficiency[k].efficiency_score \in 0..100

\* a session of two bins ended at an instant before its start_time got the
\* capped score
C10_NegativeElapsedScored ==
  \E k \in DOMAIN worker_efficiency :
     /\ worker_efficiency[k].time_taken_minutes < 0
     /\ worker_efficiency[k].bins_counted = 2
     /\ worker_efficiency[k].efficiency_score = 100

\* the text is exactly six decimal digits
IsSixDigits(code) == Len(code) = 6 /\ \A d \in DOMAIN code : code[d] \in 0..9

\* C11: every createOTPRequest that returns has stored exactly one new
\* request: the i-th request belongs to the worker and team leader of the
\* i-th call, its code is a text of exactly six decimal digits, it expires
\* exactly 10 minutes after the instant of the call, and it is unused until
\* a verifyOTP marks it.
C11_IssuePersistsOne ==
  /\ Len(otp_requests) = Len(issued)
  /\ \A i \in DOMAIN otp_requests :
        LET r == otp_requests[i] IN
        /\ r.worker_id = issued[i].worker
        /\ r.team_leader_id = issued[i].team_leader
        /\ IsSixDigits(r.otp_code)
        /\ r.expires_at * MsPerTick = issued[i].at * MsPerTick + 10 * 60 * 1000
        /\ r.is_used => \E v \in DOMAIN verified :
                           verified[v].row = i /\ verified[v].marked

\* a request issued for w2 at tick 39 is outstanding with the code 123456
C11_IssuedLate ==
  \E i \in DOMAIN otp_requests :
     /\ issued[i].at = 39
     /\ issued[i].worker = "w2"
     /\ otp_requests[i].otp_code = <<1, 2, 3, 4, 5, 6>>
     /\ otp_requests[i].expires_at = 79
     /\ ~otp_requests[i].is_used

\* the only value of Math.floor(Math.random() * 900000) that can give the
\* text code, since the text of a number parses back to the number
drawFor(code) == parseInt(code) - 100000

\* some value of Math.random() makes generateOTP return the text code
CanGenerate(code) ==
  /\ drawFor(code) \in 0..899999
  /\ generateOTP(drawFor(code)) = code

\* C12 (as stated): every text of six digits, 000000 to 999999, those with
\* leading zeros included, is a possible otp_code.
C12_EveryTextPossible ==
  (calc # Null /\ Val(calc).code # Null) => CanGenerate(Val(calc).target)

\* C12 (amended): the codes generateOTP can return are the texts 100000 to
\* 999999: every text of six digits without a leading zero is possible, no
\* text with a leading zero is, and every code returned is six digits with a
\* first digit other than 0.
C12_CodesFrom100000 ==
  (calc # Null /\ Val(calc).code # Null) =>
    LET c == Val(calc) IN
    /\ CanGenerate(c.target) <=> c.target[1] # 0
    /\ IsSixDigits(Val(c.code))
    /\ Val(c.code)[1] # 0
    /\ parseInt(Val(c.code)) \in 100000..999999
    /\ Val(c.code) = c.target => c.target[1] # 0

\* the smallest draw gave the code 100000, the text looked for
C12_SmallestCode ==
  /\ calc # Null
  /\ Val(calc).draw = 0
  /\ Val(calc).code = Some(<<1, 0, 0, 0, 0, 0>>)
  /\ Val(calc).target = <<1, 0, 0, 0, 0, 0>>

\* C13: every failing verifyOTP throws the same error, 'Invalid or expired
\* OTP', whatever made the lookup fail (wrong code, used code, expired code),
\* and a lookup that finds its request throws nothing.
C13_UniformFailure ==
  lastVerify # Null =>
    LET v == Val(lastVerify) IN
    /\ ~v.found =>
          /\ v.causes # {}
          /\ \A c \in v.causes : v.error = Some("Invalid or expired OTP")
    /\ v.found => v.error = Null

\* a verifyOTP failed only because the code it was given was already used
C13_FailedOnUsedCode ==
  /\ lastVerify # Null
  /\ Val(lastVerify).causes = {"used"}
  /\ Val(lastVerify).error # Null

\* C14: a verifyOTP of the team-leader flow that finds an unused, unexpired
\* request with the submitted code for the worker returns that request, and
\* once the handler has finished the request is used and the worker is
\* approved.
C14_ValidCodeApproves ==
  lastVerify # Null =>
    LET v == Val(lastVerify) IN
    v.rows # {} =>
       /\ v.found
       /\ AllIdle => /\ \E i \in v.rows : otp_requests[i].is_used
                     /\ is_approved[v.worker]

\* C15: whenever at least one unused, unexpired request matches the worker
\* and the code, verifyOTP succeeds, also with two or more such requests of
\* the same code, and it marks exactly one of them used and returns it.
C15_AnyEligibleVerifies ==
  lastVerify # Null =>
    LET v == Val(lastVerify) IN
    v.rows # {} =>
       /\ v.found
       /\ AllIdle =>
             /\ Cardinality({i \in v.rows : otp_requests[i].is_used}) = 1
             /\ verified # <<>>
             /\ verified[Len(verified)].row \in v.rows
             /\ otp_requests[verified[Len(verified)].row].is_used

\* C16: a createOTPRequest changes no existing request; when an earlier
\* request of the worker is still unused and unexpired, afterwards both are
\* unused and unexpired and a verifyOTP with the code of either would select
\* exactly that request.
C16_IssueKeepsEarlier ==
  [][Len(issued') = Len(issued) + 1 =>
       LET n == Len(otp_requests')
           selected(code) ==
             {j \in DOMAIN otp_requests' :
                /\ otp_requests'[j].worker_id = otp_requests'[n].worker_id
                /\ otp_requests'[j].otp_code = code
                /\ otp_requests'[j].is_used = FALSE
                /\ otp_requests'[j].expires_at > now'}
       IN /\ n = Len(otp_requests) + 1
          /\ \A i \in DOMAIN otp_requests : otp_requests'[i] = otp_requests[i]
          /\ \A i \in DOMAIN otp_requests :
                (/\ otp_requests[i].worker_id = otp_requests'[n].worker_id
                 /\ ~otp_requests[i].is_used
                 /\ otp_requests[i].expires_at > now)
                  => /\ ~otp_requests'[i].is_used /\ otp_requests'[i].expires_at > now'
                     /\ ~otp_requests'[n].is_used /\ otp_requests'[n].expires_at > now'
                     /\ selected(otp_requests'[i].otp_code) = {i}
                     /\ selected(otp_requests'[n].otp_code) = {n}]_vars

\* C17: for a session whose stored status is completed no counting record is
\* appended and the totals are not changed, whatever the tab that calls
\* confirmQuantity shows as its current session.
C17_RecordOnlyWhileActive ==
  [][\A s \in DOMAIN counting_sessions :
       counting_sessions[s].status = "completed" =>
          /\ {k \in DOMAIN counting_records' : counting_records'[k].session_id = s}
               = recordsOf(s)
          /\ counting_sessions'[s].total_bins_counted
               = counting_sessions[s].total_bins_counted
          /\ counting_sessions'[s].total_qty_counted
               = counting_sessions[s].total_qty_counted]_vars

\* C18: when a storage call of a handler returns an error the handler ends
\* there: it makes no further call, returns no result and does not go on as
\* if the call had succeeded.
C18_StorageErrorsSurfaced ==
  [][failures' = failures + 1 =>
       /\ \A t \in Slots : task'[t] # task[t] => task'[t].pc = "idle"
       /\ \A t \in Slots : vtask'[t] # vtask[t] => vtask'[t].pc = "idle"
       /\ verified' = verified
       /\ currentSession' = currentSession]_vars

\* C19: a session row is created active and completed is terminal: a
\* completed row keeps its status, end_time and totals in every step;
\* end_time is set exactly when the status is completed; a startCounting
\* appends one active row and leaves the earlier rows unchanged.
C19_CompletedIsTerminal ==
  [][/\ Len(counting_sessions') >= Len(counting_sessions)
     /\ \A s \in DOMAIN counting_sessions :
           counting_sessions[s].status = "completed" =>
              /\ counting_sessions'[s].status = "completed"
              /\ counting_sessions'[s].end_time = counting_sessions[s].end_time
              /\ counting_sessions'[s].total_bins_counted
                   = counting_sessions[s].total_bins_counted
              /\ counting_sessions'[s].total_qty_counted
                   = counting_sessions[s].total_qty_counted
     /\ \A s \in DOMAIN counting_sessions' :
           counting_sessions'[s].end_time # Null
             <=> counting_sessions'[s].status = "completed"
     /\ Len(counting_sessions') > Len(counting_sessions) =>
           /\ Len(counting_sessions') = Len(counting_sessions) + 1
           /\ counting_sessions'[Len(counting_sessions')].status = "active"
           /\ \A s \in DOMAIN counting_sessions :
                 counting_sessions'[s] = counting_sessions[s]]_vars

\* milliseconds between the stored start_time and end_time of session s
elapsedMs(s) ==
  (Val(counting_sessions[s].end_time) - counting_sessions[s].start_time) * MsPerTick

\* C20: every endCounting writes its end_time to the session row and stores
\* time_taken_minutes = round((end_time - start_time) / 60 s) of that
\* end_time and the start_time stored in the session row; the score is
\* computed with the denominator max(1, time_taken_minutes): a session ended
\* less than 30 seconds after its start holds 0 minutes and the score of one
\* minute.
C20_TimeTakenRounded ==
  [][\A t \in Slots :
       LET s == Val(task[t].session).id
           ms == (task[t].time - counting_sessions[s].start_time) * MsPerTick
           e == worker_efficiency'[Len(worker_efficiency')]
       IN /\ (/\ task[t].pc = "end_update" /\ task'[t].pc = "end_insert"
               /\ failures' = failures)
               => counting_sessions'[s].end_time = Some(task[t].time)
          /\ (/\ task[t].pc = "end_insert" /\ task'[t].pc # "end_insert"
               /\ failures' = failures)
               => /\ Len(worker_efficiency') = Len(worker_efficiency) + 1
                  /\ IsNearest(e.time_taken_minutes, ms, MsPerMinute)
                  /\ \E q \in 0..(60 * e.bins_counted) :
                        /\ IsNearest(q, 60 * e.bins_counted,
                                     Max(1, e.time_taken_minutes))
                        /\ e.efficiency_score = Min(100, q)
                  /\ (0 <= ms /\ ms < 30 * 1000) =>
                        /\ e.time_taken_minutes = 0
                        /\ e.efficiency_score = Min(100, 60 * e.bins_counted)]_vars

\* a session of one bin was ended 15 seconds after its start
C20_EndedWithinHalfMinute ==
  \E s \in DOMAIN counting_sessions :
     /\ counting_sessions[s].status = "completed"
     /\ ~ending(s)
     /\ elapsedMs(s) = 15000
     /\ \E k \in effRows(s) :
           /\ worker_efficiency[k].bins_counted = 1
           /\ worker_efficiency[k].time_taken_minutes = 0
           /\ worker_efficiency[k].efficiency_score = 60

\* C21: every user row has vendor_id exactly when its role is team_leader
\* and team_leader_id exactly when its role is worker.
C21_ParentMatchesRole ==
  \A i \in DOMAIN users :
     /\ users[i].vendor_id # Null <=> users[i].role = "team_leader"
     /\ users[i].team_leader_id # Null <=> users[i].role = "worker"

\* C22: every worker_efficiency row has ranking 1, and no step changes or
\* removes a row that exists: the table only grows at its end.
C22_RankingOneRowsKept ==
  [][/\ Len(worker_efficiency') >= Len(worker_efficiency)
     /\ \A k \in DOMAIN worker_efficiency :
           worker_efficiency'[k] = worker_efficiency[k]
     /\ \A k \in DOMAIN worker_efficiency' :
           worker_efficiency'[k].ranking = 1]_vars

\* an endCounting has added a row after the row of an earlier endCounting
C22_SecondRowAdded ==
  /\ Len(worker_efficiency) = 2
  /\ worker_efficiency[1].ranking = 1
  /\ worker_efficiency[2].ranking = 1

\* C23: every counting record stored by confirmQuantity has difference 0,
\* whatever its qty_counted and qty_as_per_books.
C23_DifferenceZero ==
  \A k \in DOMAIN counting_records : counting_records[k].difference = 0

\* records with fewer and with more counted than the books say are stored
C23_UnequalQuantitiesStored ==
  \E j, k \in DOMAIN counting_records :
     /\ counting_records[j].qty_counted < counting_records[j].qty_as_per_books
     /\ counting_records[k].qty_counted > counting_records[k].qty_as_per_books
     /\ counting_records[j].difference = 0
     /\ counting_records[k].difference = 0

\* C24: no step removes an otp_requests row or changes its worker_id,
\* team_leader_id, otp_code or expires_at; is_used changes only from false
\* to true, in the step in which a verifyOTP that selected the row returns
\* it, and never back to false.
C24_OtpRowMutatedOnce ==
  [][/\ Len(otp_requests') >= Len(otp_requests)
     /\ \A i \in DOMAIN otp_requests :
           /\ otp_requests'[i].id = otp_requests[i].id
           /\ otp_requests'[i].worker_id = otp_requests[i].worker_id
           /\ otp_requests'[i].team_leader_id = otp_requests[i].team_leader_id
           /\ otp_requests'[i].otp_code = otp_requests[i].otp_code
           /\ otp_requests'[i].expires_at = otp_requests[i].expires_at
           /\ otp_requests[i].is_used => otp_requests'[i].is_used
           /\ (~otp_requests[i].is_used /\ otp_requests'[i].is_used) =>
                 /\ Len(verified') = Len(verified) + 1
                 /\ verified'[Len(verified')].row = i]_vars

\* a used request whose expiry has passed is still in the store, after two
\* verifyOTP calls returned it
C24_UsedExpiredRowKept ==
  \E i \in DOMAIN otp_requests :
     /\ otp_requests[i].is_used
     /\ otp_requests[i].expires_at <= now
     /\ \E a, b \in DOMAIN verified :
           a # b /\ verified[a].row = i /\ verified[b].row = i

\* C25: no step changes or removes a counting record; the table grows only
\* by the insert of a confirmQuantity, by exactly one record whose
\* session_id is the session the call was made on; qty_recounted and
\* reason_for_difference are empty in every record.
C25_LedgerAppendOnly ==
  [][/\ Len(counting_records') >= Len(counting_records)
     /\ Len(counting_records') <= Len(counting_records) + 1
     /\ \A k \in DOMAIN counting_records :
           counting_records'[k] = counting_records[k]
     /\ \A k \in DOMAIN counting_records' :
           /\ counting_records'[k].qty_recounted = Null
           /\ counting_records'[k].reason_for_difference = Null
     /\ \A t \in Slots :
           (/\ task[t].pc = "confirm_insert" /\ task'[t].pc = "confirm_update"
            /\ failures' = failures)
             => /\ Len(counting_records') = Len(counting_records) + 1
                /\ counting_records'[Len(counting_records')].session_id
                     = Val(task[t].session).id
     /\ Len(counting_records') = Len(counting_records) + 1 =>
           \E t \in Slots : /\ task[t].pc = "confirm_insert"
                            /\ task'[t].pc = "confirm_update"]_vars

\* a second record was appended to the ledger of a session after its first
C25_TwoRecordsAppended ==
  /\ Len(counting_records) = 2
  /\ counting_records[1].session_id = counting_records[2].session_id
  /\ counting_records[1].qty_counted # counting_records[2].qty_counted

\* C26: a verifyOTP that fails changes no otp_requests row and no
\* is_approved, and its handler ends; is_approved of a worker is set only by
\* a handler whose verifyOTP has returned a request of that worker.
C26_FailedVerifyChangesNothing ==
  [][/\ (/\ lastVerify' # Null
          /\ lastVerify' # lastVerify
          /\ ~Val(lastVerify').found)
           => /\ otp_requests' = otp_requests
              /\ is_approved' = is_approved
              /\ verified' = verified
              /\ vtask' = vtask
     /\ \A w \in Workers :
           (is_approved'[w] /\ ~is_approved[w]) =>
              /\ \E t \in Slots : vtask[t].pc = "approve" /\ vtask[t].worker = w
              /\ \E v \in DOMAIN verified : verified[v].worker = w]_vars

\* a verifyOTP with a wrong code has failed while a valid request of the
\* worker is outstanding: the request is unused and the worker not approved
C26_FailedVerifyLeftRequest ==
  /\ lastVerify # Null
  /\ Val(lastVerify).causes = {"wrong"}
  /\ ~is_approved[Val(lastVerify).worker]
  /\ \E i \in DOMAIN otp_requests :
        /\ otp_requests[i].worker_id = Val(lastVerify).worker
        /\ ~otp_requests[i].is_used
        /\ otp_requests[i].expires_at > Val(lastVerify).at
  /\ verified = <<>>

\* C27: a verifyOTP for a worker returns and marks only requests of that
\* worker, and a worker is approved only after a verifyOTP for that worker
\* returned a request issued for that worker.
C27_OtpBoundToWorker ==
  /\ \A v \in DOMAIN verified :
        otp_requests[verified[v].row].worker_id = verified[v].worker
  /\ \A i \in DOMAIN otp_requests :
        otp_requests[i].is_used =>
           \E v \in DOMAIN verified :
              /\ verified[v].row = i
              /\ verified[v].worker = otp_requests[i].worker_id
  /\ \A w \in Workers :
        is_approved[w] =>
           \E v \in DOMAIN verified :
              /\ verified[v].worker = w
              /\ otp_requests[verified[v].row].worker_id = w
  /\ lastVerify # Null =>
        \A i \in Val(lastVerify).rows :
           otp_requests[i].worker_id = Val(lastVerify).worker

\* the code of a valid request of w1 was submitted for w2 and refused
C27_OtherWorkersCodeRefused ==
  /\ lastVerify # Null
  /\ Val(lastVerify).worker = "w2"
  /\ ~Val(lastVerify).found
  /\ ~is_approved["w2"]
  /\ \E i \in DOMAIN otp_requests :
        /\ otp_requests[i].worker_id = "w1"
        /\ otp_requests[i].otp_code = Val(lastVerify).code
        /\ ~otp_requests[i].is_used
        /\ otp_requests[i].expires_at > Val(lastVerify).at

\* C28: every worker_efficiency row belongs to a session whose stored status
\* is completed, and its bins_counted and qty_counted are the stored totals
\* of that session, also when a write of endCounting fails or the tab's copy
\* of the session is stale.
C28_EfficiencyMatchesSession ==
  \A k \in DOMAIN worker_efficiency :
     LET ses == counting_sessions[eff_session[k]] IN
     /\ ses.status = "completed"
     /\ worker_efficiency[k].bins_counted = ses.total_bins_counted
     /\ worker_efficiency[k].qty_counted = ses.total_qty_counted

\* C29: for every session total_bins_counted is at most the number of its
\* counting records and total_qty_counted at most the sum of their
\* quantities, also when the store rejects the insert of a record.
C29_TotalsWithinLedger ==
  \A s \in DOMAIN counting_sessions :
     /\ counting_sessions[s].total_bins_counted <= Cardinality(recordsOf(s))
     /\ counting_sessions[s].total_qty_counted <= sumQty(recordsOf(s))

\* C30: when a confirmQuantity is invoked, the totals of the tab's
\* currentSession are the stored totals of that session; and whenever no
\* handler is running, a tab's currentSession is set exactly when the store
\* holds an active session of its worker.
C30_LocalSessionRefinesStore ==
  [][/\ \A t \in Slots :
          (task[t].pc = "idle" /\ task'[t].pc = "confirm_insert") =>
             LET local == Val(task'[t].session)
                 stored == counting_sessions[local.id]
             IN /\ local.total_bins_counted = stored.total_bins_counted
                /\ local.total_qty_counted = stored.total_qty_counted
     /\ (\A t \in Slots : task'[t].pc = "idle") =>
          \A c \in Clients :
             currentSession'[c] # Null
               <=> \E i \in DOMAIN counting_sessions' :
                      /\ counting_sessions'[i].worker_id = user[c]
                      /\ counting_sessions'[i].status = "active"]_vars

====
